---------------------------- MODULE Spec2Model ----------------------------
(***************************************************************************)
(* Model of the two chart scripts of this repository.                      *)
(*                                                                         *)
(*   target_types_&_casualities.py : load_and_prepare_data,                *)
(*       create_color_mapping, create_visualization and the CustomJS       *)
(*       callbacks that run in the exported page.                          *)
(*   attack_types_plot.py : the pivot, the traces and the three            *)
(*       updatemenu buttons.                                               *)
(*                                                                         *)
(* A CSV cell is modelled by its text; pd.to_numeric is a parse of that    *)
(* text, NaN is the record NaN below.                                      *)
(***************************************************************************)
EXTENDS Integers, Sequences, FiniteSets, TLC

VARIABLES
    csvCols,        \* the column names present in the CSV file
    csv,            \* the rows of the CSV file (text cells)
    sample_limit,   \* the sample_limit argument of load_and_prepare_data
    stage,          \* position of __main__: start, error, crash, loaded, ui
    err,            \* message of the ValueError raised at line 25, or <<>>
    df,             \* the DataFrame returned by load_and_prepare_data
    original_df,    \* original_data handed to the callback (to_dict('list'))
    source,         \* source.data, the displayed dataset
    year_slider,    \* RangeSlider: start, end, value
    checkbox,       \* CheckboxGroup: labels, active
    p,              \* figure: title, x_range, y_range, legend entries
    stats_div,      \* the values interpolated in the statistics panel
    html,           \* TRUE once output_file/show wrote the page
    fired,          \* callback invocations of the last UI event, in order
    attack_df,      \* rows read by attack_types_plot.py
    fig             \* the plotly figure: built, traces, yaxis_title

vars == << csvCols, csv, sample_limit, stage, err, df, original_df, source,
           year_slider, checkbox, p, stats_div, html, fired, attack_df, fig >>

loadVars == << csvCols, csv, sample_limit >>
uiVars == << original_df, source, year_slider, checkbox, p, stats_div, html, fired >>
attackVars == << attack_df, fig >>

-----------------------------------------------------------------------------
(* Bounds of the model *)

MaxRows == 2          \* rows of the CSV in the full pipeline
MaxLoadRows == 2      \* rows of the CSV when only the loader runs
MaxLimit == 2         \* largest sample_limit tried
MaxAttackRows == 3    \* rows read by the attack-types script

-----------------------------------------------------------------------------
(* Generic helpers *)

Range(s) == { s[i] : i \in DOMAIN s }

RECURSIVE SetMin(_)
SetMin(S) ==
    LET x == CHOOSE y \in S : TRUE
    IN  IF S = {x} THEN x
        ELSE LET m == SetMin(S \ {x}) IN IF x < m THEN x ELSE m

RECURSIVE SetMax(_)
SetMax(S) ==
    LET x == CHOOSE y \in S : TRUE
    IN  IF S = {x} THEN x
        ELSE LET m == SetMax(S \ {x}) IN IF x > m THEN x ELSE m

RECURSIVE SeqSum(_)
SeqSum(s) == IF s = << >> THEN 0 ELSE Head(s) + SeqSum(Tail(s))

SeqsUpTo(S, n) == UNION { [1..k -> S] : k \in 0..n }

-----------------------------------------------------------------------------
(* pandas: parsing of cells *)

NaN == [nan |-> TRUE, v |-> 0]
Num(n) == [nan |-> FALSE, v |-> n]

\* The numerals the model's CSV files use and their values.
Numeral == [ s \in {"0", "1", "3", "1900", "2000", "2001"} |->
               CASE s = "0" -> 0
                 [] s = "1" -> 1
                 [] s = "3" -> 3
                 [] s = "1900" -> 1900
                 [] s = "2000" -> 2000
                 [] s = "2001" -> 2001 ]

\* pd.to_numeric(x, errors='coerce') on one cell: a numeral parses, the
\* empty cell (read_csv's NaN) and any other text become NaN.
to_numeric(cell) == IF cell \in DOMAIN Numeral THEN Num(Numeral[cell]) ELSE NaN

fillna(x, d) == IF x.nan THEN d ELSE x.v

\* read_csv gives NaN for an empty cell.
isna(cell) == cell = ""

-----------------------------------------------------------------------------
(* load_and_prepare_data *)

required_cols == << "iyear", "targtype1_txt", "nkill", "nwound" >>

\* MissingColumn reporting the last absent column instead of the first
MissingColumnLast(cols) ==
    LET absent == { i \in DOMAIN required_cols : required_cols[i] \notin cols }
    IN  IF absent = {} THEN "" ELSE required_cols[SetMax(absent)]

\* lines 23-25: the first required column that is absent, "" when none is
MissingColumn(cols) ==
    LET absent == { i \in DOMAIN required_cols : required_cols[i] \notin cols }
    IN  IF absent = {} THEN "" ELSE required_cols[SetMin(absent)]

ErrorMessage(col) == << "Required column '", col, "' not found in dataset" >>

\* lines 28-30
Coerce(r) ==
    [ index |-> r.index,
      iyear |-> to_numeric(r.iyear),
      targtype1_txt |-> r.targtype1_txt,
      nkill |-> fillna(to_numeric(r.nkill), 0),
      nwound |-> fillna(to_numeric(r.nwound), 0) ]

\* KeepNotNa with the target type left out of the subset
KeepYearOnly(r) == ~r.iyear.nan

\* line 31
KeepNotNa(r) == ~r.iyear.nan /\ ~isna(r.targtype1_txt)

\* line 32
KeepYear(r) == r.iyear.v > 1900

\* lines 35-37: circle_size is the exact fraction <<numerator, denominator>>
CircleSize(total, max_casualties) ==
    IF max_casualties > 0
    THEN << 8 * max_casualties + total * 22, max_casualties >>
    ELSE << 10, 1 >>

\* Total with the wounded left out
TotalKilledOnly(r) == r.nkill

Total(r) == r.nkill + r.nwound

WithTotals(rows) ==
    LET max_casualties == IF rows = << >> THEN 0
                          ELSE SetMax({ Total(rows[i]) : i \in DOMAIN rows })
    IN  [ i \in DOMAIN rows |->
            [ index |-> rows[i].index,
              iyear |-> rows[i].iyear.v,
              targtype1_txt |-> rows[i].targtype1_txt,
              nkill |-> rows[i].nkill,
              nwound |-> rows[i].nwound,
              total_casualties |-> Total(rows[i]),
              circle_size |-> CircleSize(Total(rows[i]), max_casualties) ] ]

\* Clean with a dropna over every column before the coercion is filled
CleanDropsBadCounts(rows) ==
    LET Counted(r) == ~to_numeric(r.nkill).nan /\ ~to_numeric(r.nwound).nan
        counted == SelectSeq(rows, Counted)
        coerced == [ i \in DOMAIN counted |-> Coerce(counted[i]) ]
        notna == SelectSeq(coerced, KeepNotNa)
        recent == SelectSeq(notna, KeepYear)
    IN  WithTotals(recent)

\* lines 28-37
Clean(rows) ==
    LET coerced == [ i \in DOMAIN rows |-> Coerce(rows[i]) ]
        notna == SelectSeq(coerced, KeepNotNa)
        recent == SelectSeq(notna, KeepYear)
    IN  WithTotals(recent)

\* df.sample(n, random_state=42): n distinct positions, in the order drawn
SamplePositions(len, n) ==
    { s \in [1..n -> 1..len] : \A i, j \in 1..n : i # j => s[i] # s[j] }

Take(rows, pos) == [ i \in DOMAIN pos |-> rows[pos[i]] ]

\* lines 40-42
NeedsSample(rows, limit) == Len(rows) > limit

\* The whole of load_and_prepare_data.  Line 45 takes int() of the minimum
\* year, which raises on an empty frame: stage "crash".
Load ==
    /\ stage = "start"
    /\ IF MissingColumn(csvCols) # ""
       THEN /\ stage' = "error"
            /\ err' = ErrorMessage(MissingColumn(csvCols))
            /\ df' = << >>
       ELSE LET cleaned == Clean(csv) IN
            \E pos \in IF NeedsSample(cleaned, sample_limit)
                       THEN SamplePositions(Len(cleaned), sample_limit)
                       ELSE { [ i \in 1..Len(cleaned) |-> i ] } :
               LET out == Take(cleaned, pos) IN
               /\ err' = << >>
               /\ IF out = << >>
                  THEN stage' = "crash" /\ df' = << >>
                  ELSE stage' = "loaded" /\ df' = out
    /\ UNCHANGED << loadVars, uiVars, attackVars >>

-----------------------------------------------------------------------------
(* create_color_mapping *)

\* The target-type labels of the model, in Python's sorted() order.
LabelOrder == << "Business", "Military", "Police" >>

\* sorted(df['targtype1_txt'].unique())
UniqueTargets(rows) ==
    LET present == { rows[i].targtype1_txt : i \in DOMAIN rows }
        In(l) == l \in present
    IN  SelectSeq(LabelOrder, In)

\* lines 58-63: the palette entry of the k-th label (k counted from 0)
PaletteEntry(k, n_targets) ==
    IF n_targets <= 20
    THEN << "Category20_20", k >>
    ELSE << "Turbo256", k * (256 \div n_targets) >>

ColorOf(label, unique_targets) ==
    LET k == CHOOSE i \in DOMAIN unique_targets : unique_targets[i] = label
    IN  PaletteEntry(k - 1, Len(unique_targets))

-----------------------------------------------------------------------------
(* create_visualization *)

\* The columns the callback reads and writes (lines 162-163).
Columns(r, color) ==
    [ iyear |-> r.iyear,
      targtype1_txt |-> r.targtype1_txt,
      nkill |-> r.nkill,
      nwound |-> r.nwound,
      total_casualties |-> r.total_casualties,
      circle_size |-> r.circle_size,
      color |-> color ]

\* legend_field='targtype1_txt' (line 95): one legend entry per distinct
\* value of the column in the rendered data source.
LegendOf(data) == { data[i].targtype1_txt : i \in DOMAIN data }

AutoRange == [auto |-> TRUE, start |-> 0, end |-> 0]

Stats(count, start, end, killed, wounded) ==
    [ count |-> count, start |-> start, end |-> end,
      total_killed |-> killed, total_wounded |-> wounded ]

\* lines 70-222
CreateVisualization ==
    /\ stage = "loaded"
    /\ LET unique_targets == UniqueTargets(df)
           colored == [ i \in DOMAIN df |->
                          Columns(df[i], ColorOf(df[i].targtype1_txt, unique_targets)) ]
           year_min == SetMin({ df[i].iyear : i \in DOMAIN df })
           year_max == SetMax({ df[i].iyear : i \in DOMAIN df })
       IN  /\ original_df' = colored
           /\ source' = colored
           /\ p' = [ title |-> [all |-> TRUE, start |-> 0, end |-> 0],
                     x_range |-> AutoRange,
                     y_range |-> AutoRange,
                     legend |-> LegendOf(colored) ]
           /\ year_slider' = [ start |-> year_min, end |-> year_max,
                               value |-> << year_min, year_max >> ]
           /\ checkbox' = [ labels |-> unique_targets,
                            active |-> 0 .. (Len(unique_targets) - 1) ]
           /\ stats_div' = Stats(Len(df), year_min, year_max,
                                 SeqSum([ i \in DOMAIN df |-> df[i].nkill ]),
                                 SeqSum([ i \in DOMAIN df |-> df[i].nwound ]))
    /\ html' = TRUE
    /\ stage' = "ui"
    /\ fired' = << >>
    /\ UNCHANGED << loadVars, err, df, attackVars >>

-----------------------------------------------------------------------------
(* The CustomJS filter callback, lines 154-208 *)

\* Selected ignoring which boxes are ticked
SelectedAll(cb) == Range(cb.labels)

\* line 160
Selected(cb) == { cb.labels[i + 1] : i \in cb.active }

\* Passes with the end of the year range excluded
PassesExclusiveEnd(r, value, selected) ==
    r.iyear >= value[1] /\ r.iyear < value[2] /\ r.targtype1_txt \in selected

\* line 170
Passes(r, value, selected) ==
    r.iyear >= value[1] /\ r.iyear <= value[2] /\ r.targtype1_txt \in selected

\* lines 171-177
Push(r) ==
    [ iyear |-> r.iyear,
      targtype1_txt |-> r.targtype1_txt,
      nkill |-> r.nkill,
      nwound |-> r.nwound,
      total_casualties |-> r.total_casualties,
      circle_size |-> r.circle_size,
      color |-> r.color ]

\* lines 167-181
NewData(orig, value, selected) ==
    LET Keep(r) == Passes(r, value, selected)
        kept == SelectSeq(orig, Keep)
    IN  [ i \in DOMAIN kept |-> Push(kept[i]) ]

\* Rescale falling back to the automatic range when nothing is shown
RescaleClearsOnEmpty(old, vals) ==
    IF Len(vals) > 0
    THEN [ auto |-> FALSE,
           start |-> SetMin(Range(vals)) - 1,
           end |-> SetMax(Range(vals)) + 1 ]
    ELSE [ auto |-> TRUE, start |-> 0, end |-> 0 ]

\* lines 197-205
Rescale(old, vals) ==
    IF Len(vals) > 0
    THEN [ auto |-> FALSE,
           start |-> SetMin(Range(vals)) - 1,
           end |-> SetMax(Range(vals)) + 1 ]
    ELSE old

\* The state of the page after one run of the callback.
Callback(orig, slider, cb, plot) ==
    LET new_data == NewData(orig, slider.value, Selected(cb))
        x_vals == [ i \in DOMAIN new_data |-> new_data[i].nkill ]
        y_vals == [ i \in DOMAIN new_data |-> new_data[i].nwound ]
    IN  [ source |-> new_data,
          p |-> [ title |-> [ all |-> FALSE, start |-> slider.value[1],
                              end |-> slider.value[2] ],
                  x_range |-> Rescale(plot.x_range, x_vals),
                  y_range |-> Rescale(plot.y_range, y_vals),
                  legend |-> LegendOf(new_data) ],
          stats_div |-> Stats(Len(new_data), slider.value[1], slider.value[2],
                              SeqSum(x_vals), SeqSum(y_vals)) ]

Invocation(slider, cb) == [ value |-> slider.value, active |-> cb.active ]

\* line 210: the user moves a slider handle
SliderChange ==
    /\ stage = "ui"
    /\ \E s, e \in year_slider.start .. year_slider.end :
          /\ s <= e
          /\ << s, e >> # year_slider.value
          /\ LET slider == [ year_slider EXCEPT !.value = << s, e >> ]
                 page == Callback(original_df, slider, checkbox, p)
             IN  /\ year_slider' = slider
                 /\ source' = page.source
                 /\ p' = page.p
                 /\ stats_div' = page.stats_div
                 /\ fired' = << Invocation(slider, checkbox) >>
    /\ UNCHANGED << loadVars, stage, err, df, original_df, checkbox, html, attackVars >>

\* line 211: the user ticks or unticks one box
CheckboxChange ==
    /\ stage = "ui"
    /\ \E i \in 0 .. (Len(checkbox.labels) - 1) :
          LET cb == [ checkbox EXCEPT !.active =
                        IF i \in @ THEN @ \ {i} ELSE @ \cup {i} ]
              page == Callback(original_df, year_slider, cb, p)
          IN  /\ checkbox' = cb
              /\ source' = page.source
              /\ p' = page.p
              /\ stats_div' = page.stats_div
              /\ fired' = << Invocation(year_slider, cb) >>
    /\ UNCHANGED << loadVars, stage, err, df, original_df, year_slider, html, attackVars >>

\* ResetClick without the assignment to checkbox.active
ResetSliderOnly ==
    /\ stage = "ui"
    /\ LET slider == [ year_slider EXCEPT
                         !.value = << year_slider.start, year_slider.end >> ]
           now == [ source |-> source, p |-> p, stats_div |-> stats_div ]
           n1 == slider # year_slider
           page1 == IF n1 THEN Callback(original_df, slider, checkbox, p) ELSE now
       IN  /\ year_slider' = slider
           /\ source' = page1.source
           /\ p' = page1.p
           /\ stats_div' = page1.stats_div
           /\ fired' = IF n1 THEN << Invocation(slider, checkbox) >> ELSE << >>
    /\ UNCHANGED << loadVars, stage, err, df, original_df, checkbox, html, attackVars >>

\* lines 139-141: slider.value = [...]; checkbox.active = [...].  A widget
\* property notifies its js_on_change listeners when the assigned value
\* differs from the one it holds, so each assignment that changes its
\* property runs the callback before the next statement.
ResetClick ==
    /\ stage = "ui"
    /\ LET slider == [ year_slider EXCEPT
                         !.value = << year_slider.start, year_slider.end >> ]
           cb == [ checkbox EXCEPT !.active = 0 .. (Len(checkbox.labels) - 1) ]
           now == [ source |-> source, p |-> p, stats_div |-> stats_div ]
           n1 == slider # year_slider
           n2 == cb # checkbox
           page1 == IF n1 THEN Callback(original_df, slider, checkbox, p) ELSE now
           page2 == IF n2 THEN Callback(original_df, slider, cb, page1.p) ELSE page1
       IN  /\ year_slider' = slider
           /\ checkbox' = cb
           /\ source' = page2.source
           /\ p' = page2.p
           /\ stats_div' = page2.stats_div
           /\ fired' = (IF n1 THEN << Invocation(slider, checkbox) >> ELSE << >>)
                       \o (IF n2 THEN << Invocation(slider, cb) >> ELSE << >>)
    /\ UNCHANGED << loadVars, stage, err, df, original_df, html, attackVars >>

-----------------------------------------------------------------------------
(* Specifications of target_types_&_casualities.py *)

\* Cells of the CSV files of the full pipeline: a missing year, a casualty
\* count that is no number, a missing wound count.
YearCells == { "", "2000", "2001" }
TargetCells == { "Business", "Military" }
KillCells == { "abc", "3" }
WoundCells == { "", "1" }

CsvRows(cols, years, targets, kills, wounds) ==
    [ iyear : IF "iyear" \in cols THEN years ELSE {""},
      targtype1_txt : IF "targtype1_txt" \in cols THEN targets ELSE {""},
      nkill : IF "nkill" \in cols THEN kills ELSE {""},
      nwound : IF "nwound" \in cols THEN wounds ELSE {""} ]

\* read_csv numbers the rows: the index column
Indexed(rows) ==
    [ i \in DOMAIN rows |->
        [ index |-> i, iyear |-> rows[i].iyear,
          targtype1_txt |-> rows[i].targtype1_txt,
          nkill |-> rows[i].nkill, nwound |-> rows[i].nwound ] ]

NoFigure == [ built |-> FALSE, n_traces |-> 0, traces |-> << >>,
              yaxis_title |-> "", active |-> 0 ]

PageNotBuilt ==
    /\ stage = "start"
    /\ err = << >>
    /\ df = << >>
    /\ original_df = << >>
    /\ source = << >>
    /\ year_slider = [ start |-> 0, end |-> 0, value |-> << 0, 0 >> ]
    /\ checkbox = [ labels |-> << >>, active |-> {} ]
    /\ p = [ title |-> [all |-> TRUE, start |-> 0, end |-> 0],
             x_range |-> AutoRange, y_range |-> AutoRange, legend |-> {} ]
    /\ stats_div = Stats(0, 0, 0, 0, 0)
    /\ html = FALSE
    /\ fired = << >>

AttackIdle ==
    /\ attack_df = << >>
    /\ fig = NoFigure

\* __main__ of target_types_&_casualities.py on any CSV file of the bounds;
\* it calls load_and_prepare_data with the default sample_limit, which these
\* files do not exceed.
Init ==
    /\ csvCols \in SUBSET Range(required_cols)
    /\ \E rows \in SeqsUpTo(CsvRows(csvCols, YearCells, TargetCells,
                                     KillCells, WoundCells), MaxRows) :
          csv = Indexed(rows)
    /\ sample_limit = MaxRows
    /\ PageNotBuilt
    /\ AttackIdle

Next ==
    \/ Load
    \/ CreateVisualization
    \/ SliderChange
    \/ CheckboxChange
    \/ ResetClick

Spec == Init /\ [][Next]_vars

-----------------------------------------------------------------------------
(* load_and_prepare_data alone, on files with every kind of bad cell *)

LoadYearCells == { "", "abc", "1900", "2001" }
LoadTargetCells == { "", "Business" }
LoadKillCells == { "", "abc", "3" }
LoadWoundCells == { "", "1" }

InitLoad ==
    /\ csvCols = Range(required_cols)
    /\ \E rows \in SeqsUpTo(CsvRows(csvCols, LoadYearCells, LoadTargetCells,
                                     LoadKillCells, LoadWoundCells), MaxLoadRows) :
          csv = Indexed(rows)
    /\ sample_limit \in 0 .. MaxLimit
    /\ PageNotBuilt
    /\ AttackIdle

NextLoad == Load

SpecLoad == InitLoad /\ [][NextLoad]_vars

-----------------------------------------------------------------------------
(* attack_types_plot.py *)

AttackYears == { 2000, 2001 }
AttackTypeCells == { "", "Armed Assault", "Bombing" }

\* The attack-type labels of the model, in sorted order (groupby sorts keys).
AttackOrder == << "Armed Assault", "Bombing" >>

\* lines 8-12: the columns of attack_pivot; groupby drops NaN keys
PivotColumns(rows) ==
    LET present == { rows[i].attacktype1_txt : i \in DOMAIN rows } \ {""}
        In(l) == l \in present
    IN  SelectSeq(AttackOrder, In)

\* lines 8-12: attack_pivot[attack_type], the count per year of the index
PivotColumn(rows, attack_type) ==
    LET index == { rows[i].iyear : i \in { k \in DOMAIN rows :
                                             rows[k].attacktype1_txt # "" } }
    IN  [ y \in index |->
            Cardinality({ i \in DOMAIN rows :
                            /\ rows[i].iyear = y
                            /\ rows[i].attacktype1_txt = attack_type }) ]

\* Repeat one element short
RepeatShort(x, n) == [ i \in 1..(n - 1) |-> x ]

\* [x] * n
Repeat(x, n) == [ i \in 1..n |-> x ]

\* The 'args' of the three buttons, lines 58-98 (counted from 0 as plotly does)
ButtonArgs(b, n_traces) ==
    CASE b = 0 -> [ stackgroup |-> Repeat("one", n_traces),
                    groupnorm |-> Repeat("", n_traces),
                    yaxis_title |-> "Number of Incidents" ]
      [] b = 1 -> [ stackgroup |-> Repeat("", n_traces),
                    groupnorm |-> Repeat("", n_traces),
                    yaxis_title |-> "Number of Incidents" ]
      [] b = 2 -> [ stackgroup |-> Repeat("one", n_traces),
                    groupnorm |-> Repeat("percent", n_traces),
                    yaxis_title |-> "Percentage of Incidents" ]

\* method 'update': the k-th element of an array goes to the k-th trace
Restyle(traces, args) ==
    [ k \in DOMAIN traces |->
        [ traces[k] EXCEPT
            !.stackgroup = IF k \in DOMAIN args.stackgroup
                           THEN args.stackgroup[k] ELSE @,
            !.groupnorm = IF k \in DOMAIN args.groupnorm
                          THEN args.groupnorm[k] ELSE @ ] ]

\* lines 15-100: the figure as written to attack_types.html
BuildFigure ==
    /\ ~fig.built
    /\ LET columns == PivotColumns(attack_df)
       IN  fig' = [ built |-> TRUE,
                    n_traces |-> Len(columns),
                    traces |-> [ k \in DOMAIN columns |->
                                   [ name |-> columns[k],
                                     y |-> PivotColumn(attack_df, columns[k]),
                                     stackgroup |-> "one",
                                     groupnorm |-> "" ] ],
                    yaxis_title |-> "Number of Incidents",
                    active |-> 0 ]
    /\ UNCHANGED << loadVars, stage, err, df, uiVars, attack_df >>

\* a click on button b of the updatemenu
ClickButton ==
    /\ fig.built
    /\ \E b \in 0..2 :
          LET args == ButtonArgs(b, fig.n_traces)
          IN  fig' = [ fig EXCEPT !.traces = Restyle(@, args),
                                  !.yaxis_title = args.yaxis_title,
                                  !.active = b ]
    /\ UNCHANGED << loadVars, stage, err, df, uiVars, attack_df >>

InitAttack ==
    /\ csvCols = {} /\ csv = << >> /\ sample_limit = 0
    /\ PageNotBuilt
    /\ attack_df \in SeqsUpTo([ iyear : AttackYears,
                                attacktype1_txt : AttackTypeCells ], MaxAttackRows)
    /\ fig = NoFigure

NextAttack ==
    \/ BuildFigure
    \/ ClickButton

SpecAttack == InitAttack /\ [][NextAttack]_vars

-----------------------------------------------------------------------------
(* Properties.  The expected values are computed here from the CSV cells   *)
(* and the widget values, not with the operators of the model.             *)

Absent(col) == col \notin csvCols

FirstAbsent ==
    IF Absent("iyear") THEN "iyear"
    ELSE IF Absent("targtype1_txt") THEN "targtype1_txt"
    ELSE IF Absent("nkill") THEN "nkill"
    ELSE "nwound"

\* C1: when a required column is absent, load_and_prepare_data raises the
\* ValueError naming the first absent column (in the order iyear,
\* targtype1_txt, nkill, nwound); nothing is prepared, no page is written.
C1_MissingColumnRaises ==
    (stage # "start" /\ \E col \in Range(required_cols) : Absent(col)) =>
        /\ stage = "error"
        /\ err = << "Required column '", FirstAbsent, "' not found in dataset" >>
        /\ df = << >>
        /\ original_df = << >>
        /\ source = << >>
        /\ ~html

C1_Witness ==
    /\ stage = "error"
    /\ ~Absent("iyear") /\ Absent("targtype1_txt") /\ Absent("nwound")
    /\ err[2] = "targtype1_txt"
    /\ csv # << >>

IsNumber(cell) == cell \in { "0", "1", "3", "1900", "2000", "2001" }

ValueOf(cell) == IF IsNumber(cell) THEN Numeral[cell] ELSE 0

YearPresent(r) == IsNumber(r.iyear) /\ r.targtype1_txt # ""

Retainable(r) == YearPresent(r) /\ Numeral[r.iyear] > 1900

Retained(i) ==
    \E j \in DOMAIN df :
        /\ df[j].index = i
        /\ df[j].nkill = ValueOf(csv[i].nkill)
        /\ df[j].nwound = ValueOf(csv[i].nwound)

\* C2 as stated: every row whose year and target type are present is in the
\* output (the file having no more rows than sample_limit), its casualty
\* counts coerced.
C2_AsStated ==
    (stage = "loaded" /\ Len(csv) <= sample_limit) =>
        \A i \in DOMAIN csv : YearPresent(csv[i]) => Retained(i)

\* C2, amended: every row whose year is a number above 1900 and whose target
\* type is present is in the output when no more than sample_limit such rows
\* exist; a casualty count that is no number is 0 there, a numeric one is
\* unchanged.
C2_CoercedNeverDropped ==
    ( /\ stage # "start"
      /\ \E i \in DOMAIN csv : Retainable(csv[i])
      /\ Cardinality({ i \in DOMAIN csv : Retainable(csv[i]) }) <= sample_limit ) =>
        /\ stage = "loaded"
        /\ \A i \in DOMAIN csv : Retainable(csv[i]) => Retained(i)

C2_Witness ==
    /\ stage = "loaded"
    /\ \E i \in DOMAIN csv :
          /\ csv[i].nkill = "abc" /\ csv[i].nwound = ""
          /\ Retained(i)
    /\ \E i \in DOMAIN csv : csv[i].nkill = "3" /\ Retained(i)

\* C3: every returned row comes from a CSV row whose year is a number and
\* whose target type is present; a row with a missing year, a year that is
\* no number or a missing target type is not in the output.
C3_NoMissingYearOrTarget ==
    stage = "loaded" =>
        /\ \A j \in DOMAIN df :
              /\ df[j].index \in DOMAIN csv
              /\ YearPresent(csv[df[j].index])
              /\ df[j].iyear = Numeral[csv[df[j].index].iyear]
              /\ df[j].targtype1_txt = csv[df[j].index].targtype1_txt
        /\ \A i \in DOMAIN csv :
              ~YearPresent(csv[i]) => \A j \in DOMAIN df : df[j].index # i

C3_Witness ==
    /\ stage = "loaded"
    /\ Len(df) = 1
    /\ \E i \in DOMAIN csv : csv[i].iyear = "2001" /\ csv[i].targtype1_txt = ""
    /\ \E i \in DOMAIN csv : csv[i].iyear = "2001" /\ csv[i].targtype1_txt # ""

\* C6 as stated: load_and_prepare_data returns min(number of cleaned rows,
\* sample_limit) rows, each a distinct row of the cleaned dataset.
C6_ReturnsMinRows ==
    stage # "start" =>
        LET cleaned == { i \in DOMAIN csv : Retainable(csv[i]) }
        IN  /\ stage = "loaded"
            /\ Len(df) = IF Cardinality(cleaned) <= sample_limit
                         THEN Cardinality(cleaned) ELSE sample_limit
            /\ \A j \in DOMAIN df : df[j].index \in cleaned
            /\ \A j, k \in DOMAIN df : j # k => df[j].index # df[k].index

-----------------------------------------------------------------------------

Checked == { checkbox.labels[i + 1] : i \in checkbox.active }

Shown(r) ==
    /\ year_slider.value[1] <= r.iyear
    /\ r.iyear <= year_slider.value[2]
    /\ r.targtype1_txt \in Checked

Plain(r) ==
    [ iyear |-> r.iyear, targtype1_txt |-> r.targtype1_txt,
      nkill |-> r.nkill, nwound |-> r.nwound,
      total_casualties |-> r.total_casualties ]

Expected == SelectSeq(df, Shown)

SumOf(rows, Field(_)) == SeqSum([ i \in DOMAIN rows |-> Field(rows[i]) ])

Killed(r) == r.nkill
Wounded(r) == r.nwound

DatasetAndStatsFollowWidgets ==
    /\ Len(source) = Len(Expected)
    /\ \A i \in DOMAIN source : Plain(source[i]) = Plain(Expected[i])
    /\ stats_div.count = Len(Expected)
    /\ stats_div.total_killed = SumOf(Expected, Killed)
    /\ stats_div.total_wounded = SumOf(Expected, Wounded)
    /\ stats_div.start = year_slider.value[1]
    /\ stats_div.end = year_slider.value[2]

AllChecked == checkbox.active = 0 .. (Len(checkbox.labels) - 1)

FullRange == year_slider.value = << year_slider.start, year_slider.end >>

\* C4 as stated: dataset, statistics and title are functions of the current
\* slider value and selection alone; the title of the page as first shown,
\* with the full range and every box ticked, is the "All Years" one.
C4_AsStated ==
    stage = "ui" =>
        /\ DatasetAndStatsFollowWidgets
        /\ (FullRange /\ AllChecked) => p.title.all

\* C4, amended: the displayed dataset is the rows of the prepared dataset, in
\* order, whose year is in the slider's [start, end] and whose target type is
\* ticked, and the statistics are their count and sums, whatever the earlier
\* events were; the title is "All Years" until the first callback runs (slider
\* and boxes being untouched) and names the slider's current range after it.
C4_DisplayedFollowsWidgets ==
    stage = "ui" =>
        /\ DatasetAndStatsFollowWidgets
        /\ IF p.title.all
           THEN FullRange /\ AllChecked
           ELSE /\ p.title.start = year_slider.value[1]
                /\ p.title.end = year_slider.value[2]

C4_Witness ==
    /\ stage = "ui"
    /\ Len(df) = 2
    /\ Len(source) = 1
    /\ source[1].iyear = 2001
    /\ df[1].iyear = 2000
    /\ year_slider.value = << 2001, 2001 >>
    /\ AllChecked
    /\ ~p.title.all

\* C5: total_casualties = nkill + nwound, on the coerced values, for every
\* row of the prepared dataset and every row displayed after any events.
C5_TotalIsSum ==
    /\ \A j \in DOMAIN df :
          /\ df[j].total_casualties = ValueOf(csv[df[j].index].nkill)
                                      + ValueOf(csv[df[j].index].nwound)
          /\ df[j].total_casualties = df[j].nkill + df[j].nwound
    /\ \A i \in DOMAIN original_df :
          original_df[i].total_casualties = original_df[i].nkill + original_df[i].nwound
    /\ \A i \in DOMAIN source :
          source[i].total_casualties = source[i].nkill + source[i].nwound

C5_Witness ==
    /\ stage = "ui"
    /\ fired # << >>
    /\ Len(df) = 2
    /\ \E i \in DOMAIN source :
          source[i].nkill = 3 /\ source[i].nwound = 1 /\ source[i].total_casualties = 4
    /\ \E j \in DOMAIN df :
          csv[df[j].index].nkill = "abc" /\ df[j].total_casualties = 0

\* C7: the legend entries are the distinct target types of the displayed
\* rows: all of them ticked labels, and none a ticked label without a row
\* in the selected year range.
C7_LegendIsDisplayedTypes ==
    stage = "ui" =>
        /\ p.legend = { source[i].targtype1_txt : i \in DOMAIN source }
        /\ p.legend \subseteq Checked
        /\ \A l \in Checked :
              l \in p.legend <=>
                \E j \in DOMAIN df :
                    /\ df[j].targtype1_txt = l
                    /\ year_slider.value[1] <= df[j].iyear
                    /\ df[j].iyear <= year_slider.value[2]

C7_Witness ==
    /\ stage = "ui"
    /\ fired # << >>
    /\ Checked = { "Business", "Military" }
    /\ p.legend = { "Business" }
    /\ ~FullRange

ComputedRange(vals) ==
    [ auto |-> FALSE,
      start |-> (CHOOSE m \in vals : \A v \in vals : m <= v) - 1,
      end |-> (CHOOSE m \in vals : \A v \in vals : m >= v) + 1 ]

\* C8: an event that changes the slider value or the selection sets the axis
\* ranges to [min - 1, max + 1] of nkill and of nwound over the displayed
\* rows; when nothing is displayed it leaves both ranges as they were, while
\* the dataset, the title and the statistics (count 0, sums 0) are updated.
C8_Rescale ==
    [][ ( /\ stage = "ui"
          /\ stage' = "ui"
          /\ (year_slider' # year_slider \/ checkbox' # checkbox) ) =>
        IF source' # << >>
        THEN /\ p'.x_range = ComputedRange({ source'[i].nkill : i \in DOMAIN source' })
             /\ p'.y_range = ComputedRange({ source'[i].nwound : i \in DOMAIN source' })
        ELSE /\ p'.x_range = p.x_range
             /\ p'.y_range = p.y_range
             /\ p'.title = [ all |-> FALSE, start |-> year_slider'.value[1],
                             end |-> year_slider'.value[2] ]
             /\ stats_div'.count = 0
             /\ stats_div'.total_killed = 0
             /\ stats_div'.total_wounded = 0
             /\ stats_div'.start = year_slider'.value[1]
             /\ stats_div'.end = year_slider'.value[2] ]_vars

C8_Witness ==
    /\ stage = "ui"
    /\ source = << >>
    /\ Len(fired) = 1
    /\ stats_div.count = 0
    /\ p.x_range = [ auto |-> FALSE, start |-> 2, end |-> 4 ]
    /\ p.y_range = [ auto |-> FALSE, start |-> -1, end |-> 2 ]

-----------------------------------------------------------------------------

AttackTypes == { attack_df[i].attacktype1_txt : i \in DOMAIN attack_df } \ { "" }

ConfigOf(b) ==
    CASE b = 0 -> << "one", "", "Number of Incidents" >>
      [] b = 1 -> << "", "", "Number of Incidents" >>
      [] b = 2 -> << "one", "percent", "Percentage of Incidents" >>

\* C10: the chart has one trace per distinct attack type; before any click
\* and after any clicks every trace carries the stackgroup and groupnorm of
\* the last button clicked (Stacked at first), and the y-axis title is
\* 'Percentage of Incidents' exactly when groupnorm is 'percent'.
C10_ButtonsSetAllTraces ==
    fig.built =>
        /\ Len(fig.traces) = Cardinality(AttackTypes)
        /\ fig.n_traces = Cardinality(AttackTypes)
        /\ \A k \in DOMAIN fig.traces :
              /\ fig.traces[k].stackgroup = ConfigOf(fig.active)[1]
              /\ fig.traces[k].groupnorm = ConfigOf(fig.active)[2]
              /\ fig.yaxis_title = "Percentage of Incidents"
                    <=> fig.traces[k].groupnorm = "percent"
        /\ fig.yaxis_title = ConfigOf(fig.active)[3]

C10_Witness ==
    /\ fig.built
    /\ fig.active = 2
    /\ Len(fig.traces) = 2
    /\ fig.traces[2].groupnorm = "percent"
    /\ fig.traces[2].stackgroup = "one"
    /\ fig.yaxis_title = "Percentage of Incidents"

=============================================================================
